---- MODULE Spec2Model ----
(***************************************************************************)
(* SWIPE' pitch tracker (src/swipe.c, src/vector.c, src/vector.h).         *)
(*                                                                         *)
(* Fixed-point conventions (TLC has integers only):                        *)
(*   frequencies      integer Hz                                           *)
(*   times            ticks, TicksPerSec ticks per second                  *)
(*   log2 quantities  units of 10^-7 (One = 1.0)                           *)
(*   strengths        units of 1/StUnit                                    *)
(*   NaN              the sentinel integer NaN                             *)
(***************************************************************************)
EXTENDS Integers, Sequences, FiniteSets, TLC

\* ------------------------------------------------------------------ units
TicksPerSec == 2000
StUnit == 100
One == 10000000
NaN == 0 - 1000000000

\* ------------------------------------------------- swipe.c #defines 88-100
NOK == 0
DLOG2P == 104167
POLYV == 13028
ST == 30
DT == 2
\* the literal .001 of swipe.c:634
MinStep == 2
MIN == 100
MAX == 600
SHRT_MIN == 0 - 32768
EXIT_SUCCESS == 0
EXIT_FAILURE == 1
\* termination by SIGSEGV, as the shell reports it
SIGSEGV == 139

\* ------------------------------------------------------------ arithmetic
Abs(a) == IF a < 0 THEN 0 - a ELSE a

\* ceil(a / b) for b > 0
CeilDiv(a, b) == 0 - ((0 - a) \div b)

\* round(a / b) as swipe.c:121-123 defines round(): half away from zero
RoundDiv(a, b) ==
    IF a >= 0 THEN (2 * a + b) \div (2 * b)
    ELSE 0 - ((2 * (0 - a) + b) \div (2 * b))

isnan(v) == v = NaN

RECURSIVE Pow2(_)
Pow2(n) == IF n <= 0 THEN 1 ELSE 2 * Pow2(n - 1)

\* log2() of the integers the modelled requests produce, in units of 10^-7
Log2e7(v) ==
    CASE v = 100 -> 66438562
      [] v = 600 -> 92288187
      [] v = 1000 -> 99657843
      [] v = 1001 -> 99672263
      [] v = 2000 -> 109657843
      [] v = 3000 -> 115507468
      [] v = 4000 -> 119657843
      [] v = 4500 -> 121357093
      [] v = 5000 -> 122877124
      [] v = 64000 -> 159657843
      [] v = 128000 -> 169657843

\* ------------------------------------------------------------ vector.c
\* bisectv(), vector.c:131-145; v is a function on 0..n-1
RECURSIVE bisectLoop(_, _, _, _)
bisectLoop(v, key, lo, hi) ==
    IF hi - lo > 1
    THEN LET md == (hi + lo) \div 2
         IN  IF v[md] > key THEN bisectLoop(v, key, lo, md)
                            ELSE bisectLoop(v, key, md, hi)
    ELSE hi

bisectv(v, n, key) == bisectLoop(v, key, 1, n)

\* bilookv(), vector.c:151-165
bilookv(v, n, key, lo) == bisectLoop(v, key, lo - 1, n)

\* --------------------------------------------------------- model inputs
\* lengths (in samples) of the modelled audio files
ShortLen == 20
LongLen == 140
\* longest batch list
MaxBatch == 2
\* sample rate of the modelled audio files (SF_INFO.samplerate)
SampleRate == 8000
\* strength a loudness frame built from out-of-bounds reads may produce
GarbageStrengths == {0, 40}
\* strength of a voiced frame at the candidate its spectrum matches
ToneStrength == 60
ToneSlope == 5

NoFile == [kind |-> "none", frames |-> 0, onset |-> 0, peak |-> "mid"]
Missing == [kind |-> "missing", frames |-> 0, onset |-> 0, peak |-> "mid"]
NotAudio == [kind |-> "notaudio", frames |-> 0, onset |-> 0, peak |-> "mid"]
Audio(n, o, pk) == [kind |-> "audio", frames |-> n, onset |-> o, peak |-> pk]

\* what -i FILE (or stdin) may hold: a file that cannot be opened, a stream
\* that is not audio, an audio file without samples, silence, tones
Files ==
    { Missing, NotAudio, Audio(0, 0, "mid"),
      Audio(LongLen, LongLen, "mid"), Audio(ShortLen, 0, "mid"),
      Audio(LongLen, LongLen \div 2, "last") }

BatchFiles == { Missing, NotAudio, Audio(ShortLen, 0, "mid") }

RECURSIVE SeqsUpTo(_, _)
SeqsUpTo(T, n) ==
    IF n = 0 THEN { <<>> }
    ELSE LET shorter == SeqsUpTo(T, n - 1)
         IN  shorter \cup { Append(q, e) : q \in shorter, e \in T }

\* -r MIN:MAX arguments (absent: MIN:MAX), -s and -t arguments
Ranges == { <<MIN, MAX>>, <<0, 600>>, <<1000, 1000>>, <<1000, 1001>>,
            <<1000, 2000>>, <<1000, 5000>>, <<3000, 4000>>, <<4500, 5000>> }
StArgs == { 0 - 10, 0, 110 }
DtArgs == { 1, 5, SampleRate * TicksPerSec + 1 }

\* the sample x.v[k] of file f: 0 or a nonzero value (written 1)
Sample(f, k) == IF k >= f.onset THEN 1 ELSE 0

\* ------------------------------------------------------------- the state
VARIABLES
    at,       \* position in main()/swipe()
    argv,     \* the command line as getopt() parsed it
    min, max, st, dt, vlo, mel,   \* main()'s locals, swipe.c:568-573
    batch,    \* the INPUT files still to be read from the -b list
    wav,      \* the input at hand
    sw,       \* swipe()'s locals
    S,        \* the strength matrix, S[i][j], candidates x frames
    p,        \* the pitch vector swipe() returned
    opened,   \* inputs opened so far
    stages,   \* pipeline stages executed on the input at hand
    outs,     \* outputs written so far, one sequence of lines per output
    status,   \* exit status, or "running"
    pt,       \* pitch() applied on its own: its arguments and results
    vt        \* sieve(), bisectv() and bilookv(), and the kernel of Sadd()
              \* applied on their own: arguments and results

vars == << at, argv, min, max, st, dt, vlo, mel, batch, wav, sw, S, p,
           opened, stages, outs, status, pt, vt >>

Empty == [ j \in {} |-> 0 ]

\* ---------------------------------------------------------------- the heap
\* what swipe() and the functions it calls allocate, by the name the code
\* gives it; Bp is polyfit()'s result, coefs in pitch()
Buffers ==
    { "ws", "pc", "d", "x", "fERBs", "ps", "S", "fi", "fo", "plan", "hann",
      "f", "L", "a", "a2", "u", "mu", "pci", "Slocal", "q", "kernel", "s",
      "ntc", "p", "Ap", "Bp", "work" }

\* live[b]: the buffers named b that are allocated; peakL: the most
\* loudness matrices that were allocated at one time; bad: free() was given
\* a buffer that is not allocated
NoHeap == [ live |-> [ b \in Buffers |-> 0 ], peakL |-> 0, bad |-> FALSE ]

\* malloc() under makev(), makeiv(), makem() (vector.c:45-50, 169-174), and
\* fftw_malloc(), fftw_plan_dft_r2c_1d()
alloc(h, b) ==
    LET n == h.live[b] + 1
    IN  [ h EXCEPT !.live[b] = n,
                   !.peakL = IF b = "L" /\ n > @ THEN n ELSE @ ]

\* free() under freev(), freeiv(), freem() (vector.c:90-92, 211-213), and
\* fftw_free(), fftw_destroy_plan()
release(h, b) ==
    IF h.live[b] = 0 THEN [ h EXCEPT !.bad = TRUE ]
    ELSE [ h EXCEPT !.live[b] = @ - 1 ]

\* a stretch of code by its allocations and frees, in order: << "+", b >>
\* allocates b and << "-", b >> frees it
RECURSIVE run(_, _)
run(h, ev) ==
    IF ev = << >> THEN h
    ELSE LET h1 == IF Head(ev)[1] = "+" THEN alloc(h, Head(ev)[2])
                                        ELSE release(h, Head(ev)[2])
         IN  IF h1 = h THEN run(h, Tail(ev)) ELSE run(h1, Tail(ev))

\* a loop that runs the stretch ev k times; a round that leaves the heap as
\* it found it is followed by rounds that do the same
RECURSIVE repeat(_, _, _)
repeat(h, ev, k) ==
    IF k <= 0 THEN h
    ELSE LET h1 == run(h, ev)
         IN  IF h1 = h THEN h ELSE repeat(h1, ev, k - 1)

\* swipe()'s locals, and what the call did so far: pass holds, for each
\* strength pass, the index n it read ws.v at and the window it worked with;
\* cov holds, for each candidate, the sum of the weights mu it was given and
\* whether one of them was positive
NoSw == [ min |-> 0, max |-> 0, st |-> 0, dt |-> 0, wsx |-> 0, K |-> 0,
          Sy |-> 0, i |-> 0, g |-> 0, ws |-> Empty, pass |-> << >>,
          cov |-> Empty, heap |-> NoHeap, pcr |-> {} ]
NoPt == [ S |-> Empty, K |-> 0, st1 |-> 0, st2 |-> 0, p1 |-> Empty,
          p2 |-> Empty, done |-> FALSE ]
NoVt == [ fn |-> "none", n |-> 0, v |-> Empty, key |-> 0, key2 |-> 0,
          mn |-> 0, c |-> 0, ps |-> Empty, primes |-> << >>, hi |-> 0,
          hi2 |-> 0, harm |-> {}, plim |-> 0, done |-> FALSE ]

\* main()'s initialisers, swipe.c:568-577
MainInit ==
    /\ at = "getopt"
    /\ argv = [ r |-> <<MIN, MAX>>, s |-> ST, t |-> DT, n |-> FALSE,
                m |-> FALSE, b |-> FALSE, list |-> << >>, quit |-> "no" ]
    /\ min = MIN /\ max = MAX /\ st = ST /\ dt = DT
    /\ vlo = TRUE /\ mel = FALSE
    /\ batch = << >>
    /\ wav = NoFile
    /\ sw = NoSw
    /\ S = Empty
    /\ p = Empty
    /\ opened = << >>
    /\ stages = {}
    /\ outs = << >>
    /\ status = "running"

Init ==
    /\ MainInit
    /\ pt = NoPt
    /\ vt = NoVt

\* exit(code), or the process dying
Exit(code) ==
    /\ at' = "exit"
    /\ status' = code

\* the getopt() loop, swipe.c:578-621: -h and -v quit with success, an
\* unknown option with failure; -b opens the list, -i names the input
getopt ==
    /\ at = "getopt"
    /\ \E r \in Ranges, s \in StArgs, t \in DtArgs, n \in BOOLEAN,
          m \in BOOLEAN, quit \in {"no", "h", "v", "?"} :
         /\ \/ /\ quit = "no"
               /\ \E b \in BOOLEAN :
                    IF b
                    THEN /\ \E list \in SeqsUpTo(BatchFiles, MaxBatch) :
                              /\ batch' = list
                              /\ argv' = [ r |-> r, s |-> s, t |-> t, n |-> n,
                                           m |-> m, b |-> b, list |-> list,
                                           quit |-> quit ]
                         /\ wav' = wav
                    ELSE /\ batch' = batch
                         /\ argv' = [ r |-> r, s |-> s, t |-> t, n |-> n,
                                      m |-> m, b |-> b, list |-> << >>,
                                      quit |-> quit ]
                         /\ \E f \in Files : wav' = f
               /\ min' = r[1] /\ max' = r[2] /\ st' = s /\ dt' = t
               /\ vlo' = ~n /\ mel' = m
               /\ at' = "sanity"
               /\ status' = status
            \/ /\ quit # "no"
               /\ r = <<MIN, MAX>> /\ s = ST /\ t = DT /\ ~n /\ ~m
               /\ argv' = [ argv EXCEPT !.quit = quit ]
               /\ Exit(IF quit = "?" THEN EXIT_FAILURE ELSE EXIT_SUCCESS)
               /\ UNCHANGED << min, max, st, dt, vlo, mel, batch, wav >>
    /\ UNCHANGED << sw, S, p, opened, stages, outs, pt, vt >>

\* the first aborting test alone
rangeRejectedMinOnly(mn, mx) == mn < 1

\* the two aborting tests, swipe.c:622-629
rangeRejected(mn, mx) == mn < 1 \/ mx - mn < 1

\* the threshold tested against its lower limit alone
stCheckedBelowOnly(s) == IF s < 0 THEN ST ELSE s

\* the two correcting tests, swipe.c:630-637
stChecked(s) == IF s < 0 \/ s > StUnit THEN ST ELSE s
dtChecked(t) == IF t < MinStep THEN DT ELSE t

\* the sanity checks, swipe.c:622-637
sanity ==
    /\ at = "sanity"
    /\ IF rangeRejected(min, max)
       THEN /\ Exit(EXIT_FAILURE)
            /\ UNCHANGED << st, dt >>
       ELSE /\ st' = stChecked(st)
            /\ dt' = dtChecked(dt)
            /\ at' = IF argv.b THEN "batch" ELSE "single"
            /\ status' = status
    /\ UNCHANGED << pt, vt, argv, min, max, vlo, mel, batch, wav, sw, S, p, opened,
                    stages, outs >>

\* the batch loop head, swipe.c:638-639 and 653-654: fscanf() takes the next
\* INPUT OUTPUT pair, or meets EOF
batchNext ==
    /\ at = "batch"
    /\ IF batch = << >>
       THEN /\ Exit(EXIT_SUCCESS)
            /\ UNCHANGED << batch, wav, stages >>
       ELSE /\ wav' = Head(batch)
            /\ batch' = Tail(batch)
            /\ stages' = {}
            /\ at' = "swipe"
            /\ status' = status
    /\ UNCHANGED << pt, vt, argv, min, max, st, dt, vlo, mel, sw, S, p, opened, outs >>

\* single-file mode, swipe.c:656-657
single ==
    /\ at = "single"
    /\ at' = "swipe"
    /\ UNCHANGED << pt, vt, argv, min, max, st, dt, vlo, mel, batch, wav, sw, S, p,
                    opened, stages, outs, status >>

\* swipe(wav, min, max, st, dt) called (swipe.c:641, 657) and opening its
\* input, swipe.c:431-442.  fopen() of a file that cannot be opened yields
\* NULL and fileno(NULL) faults; a stream that libsndfile cannot read
\* leaves info.sections = 0
swipeOpen ==
    /\ at = "swipe"
    /\ opened' = Append(opened, wav)
    /\ sw' = [ NoSw EXCEPT !.min = min, !.max = max, !.st = st, !.dt = dt,
                            !.heap = IF wav.kind = "notaudio"
                                     THEN alloc(NoHeap, "p") ELSE NoHeap ]
    /\ CASE wav.kind = "missing" ->
              /\ Exit(SIGSEGV)
              /\ UNCHANGED << S, p >>
         [] wav.kind = "notaudio" ->
              /\ p' = Empty
              /\ S' = Empty
              /\ at' = "ret"
              /\ status' = status
         [] wav.kind = "audio" ->
              /\ at' = "plan"
              /\ status' = status
              /\ UNCHANGED << S, p >>
    /\ UNCHANGED << pt, vt, argv, min, max, st, dt, vlo, mel, batch, wav, stages, outs >>

\* ---------------------------------------------------------- the planner
nyquist == SampleRate \div 2
nyquist2 == SampleRate
nyquist16 == SampleRate * 8

\* ws.x, swipe.c:454-455
wsCount(mn, mx) ==
    RoundDiv((Log2e7(nyquist16) - Log2e7(mn)) - (Log2e7(nyquist16) - Log2e7(mx)),
             One) + 1

\* log2 of ws.v[0], swipe.c:457
ws0Log2(mn) == RoundDiv(Log2e7(nyquist16) - Log2e7(mn), One)

\* every window as large as the first
wsAtFlat(mn, i) == Pow2(ws0Log2(mn))

\* ws.v[i], swipe.c:456-458
wsAt(mn, i) == Pow2(ws0Log2(mn)) \div Pow2(i)

\* pc.x, swipe.c:459
pcCount(mn, mx) == CeilDiv(Log2e7(mx) - Log2e7(mn), DLOG2P)

\* log2(pc.v[i]), swipe.c:462-463
pcLog2(mn, i) == Log2e7(mn) + i * DLOG2P

\* d.v[i], swipe.c:464
dAt(mn, i) == One + pcLog2(mn, i) - (Log2e7(nyquist16) - ws0Log2(mn) * One)

\* ---- IEEE-754 double division, for swipe.c:478
\* floor(log2(num / den))
RECURSIVE log2Up(_, _, _)
log2Up(num, den, e) ==
    IF den * Pow2(e + 1) <= num THEN log2Up(num, den, e + 1) ELSE e

RECURSIVE log2Down(_, _, _)
log2Down(num, den, e) ==
    IF num * Pow2(0 - e) < den THEN log2Down(num, den, e - 1) ELSE e

FloorLog2(num, den) ==
    IF num >= den THEN log2Up(num, den, 0) ELSE log2Down(num, den, 0 - 1)

\* 2^s mod m
RECURSIVE pow2Mod(_, _)
pow2Mod(s, m) ==
    IF s = 0 THEN 1 % m
    ELSE LET h == pow2Mod(s \div 2, m)
             sq == (h * h) % m
         IN  IF s % 2 = 0 THEN sq ELSE (2 * sq) % m

\* The double nearest to num / den is A / 2^s, A the integer nearest to
\* num * 2^s / den (ties to even) and s = 52 - floor(log2(num / den)).
\* roundErr is A * den - num * 2^s: what the rounding added, times den * 2^s
roundErr(num, den, s) ==
    LET low == ((num % den) * pow2Mod(s, den)) % den
        low2 == ((num % (2 * den)) * pow2Mod(s, 2 * den)) % (2 * den)
        odd == (low2 - low) \div den
        up == 2 * low > den \/ (2 * low = den /\ odd = 1)
    IN  IF up THEN den - low ELSE 0 - low

\* For a = (double) n / fs, the double dt of step ticks and q = n / fs / dt
\* an integer: the double a / dt is above q, i.e. the exact a / dt is above
\* q + ulp(q) / 2.  With ea, ed the rounding errors of a and dt this is
\*   T ea 2^t > fs ed q 2^s + fs (step 2^t + ed) 2^(s + eq - 53)
\* (T = TicksPerSec), compared after division by 2^(t - P)
quotientAbove(n, fs, step, q) ==
    LET la == FloorLog2(n, fs)
        ld == FloorLog2(step, TicksPerSec)
        lq == FloorLog2(q, 1)
        ea == roundErr(n, fs, 52 - la)
        ed == roundErr(step, TicksPerSec, 52 - ld)
        a2 == ld - la
        a3 == lq - la - 1
        P == IF a2 < a3 THEN (IF a2 < 0 THEN 0 - a2 ELSE 0)
                        ELSE (IF a3 < 0 THEN 0 - a3 ELSE 0)
        X == TicksPerSec * ea * Pow2(P)
        Y == fs * ed * q * Pow2(a2 + P)
        Z == fs * step * Pow2(a3 + P)
    IN  X > Y + Z \/ (X = Y + Z /\ ed < 0)

\* the columns of S, swipe.c:478: ceil(((double) x.x / nyquist2) / dt) as
\* doubles evaluate it.  A quotient that is not an integer is further from
\* the integers than the rounding can move it
SwipeFrames(n, fs, step) ==
    IF n = 0 THEN 0
    ELSE IF (n * TicksPerSec) % fs = 0 /\ ((n * TicksPerSec) \div fs) % step = 0
         THEN LET q == ((n * TicksPerSec) \div fs) \div step
              IN  IF quotientAbove(n, fs, step, q) THEN q + 1 ELSE q
         ELSE CeilDiv(CeilDiv(n * TicksPerSec, fs), step)

\* the ERB axis, swipe.c:469-474, by its length and its last frequency (in
\* 1/100 Hz): fERBs.v[i] = erb2hz(hz2erb(min / 4) + i * DERBS)
fERBs(mn) ==
    CASE mn = 100 -> [x |-> 262, last |-> 398272]
      [] mn = 1000 -> [x |-> 203, last |-> 398079]
      [] mn = 3000 -> [x |-> 136, last |-> 395531]
      [] mn = 4500 -> [x |-> 106, last |-> 396157]

\* swipe.c:443-478: clamps, window sizes, candidate grid, signal, ERB axis,
\* sieve, zeroed S.  A negative pc.x makes makev() fail and pc.v[0] (475) fault.
\* g is what the memory next to this call's buffers makes of a read past
\* their end
plan ==
    /\ at = "plan"
    /\ \E g \in GarbageStrengths :
       LET smax == IF sw.max > nyquist THEN nyquist ELSE sw.max
           sdt == IF sw.dt > nyquist2 * TicksPerSec
                  THEN nyquist2 * TicksPerSec ELSE sw.dt
           K == pcCount(sw.min, smax)
           Sy == SwipeFrames(wav.frames, nyquist2, sdt)
           wsx == wsCount(sw.min, smax)
           made == run(sw.heap, << <<"+", "ws">>, <<"+", "pc">>, <<"+", "d">>,
                                   <<"+", "x">>, <<"+", "fERBs">> >>)
       IN  /\ sw' = [ sw EXCEPT !.max = smax, !.dt = sdt, !.wsx = wsx,
                                !.K = K, !.Sy = Sy, !.i = 0, !.g = g,
                                !.ws = [ i \in 0..(wsx - 1) |-> wsAt(sw.min, i) ],
                                !.cov = [ c \in 0..(K - 1) |->
                                            [ sum |-> 0, pos |-> FALSE ] ],
                                !.heap = IF K < 0 THEN made
                                         ELSE run(made, << <<"+", "ps">>,
                                                           <<"+", "S">> >>) ]
           /\ stages' = stages \cup {"planner"}
           /\ IF K < 0
              THEN /\ Exit(SIGSEGV)
                   /\ S' = S
              ELSE /\ S' = [ i \in 0..(K - 1) |-> [ j \in 0..(Sy - 1) |-> 0 ] ]
                   /\ at' = "Sfirst"
                   /\ status' = status
    /\ UNCHANGED << pt, vt, argv, min, max, st, dt, vlo, mel, batch, wav, p, opened,
                    outs >>

\* ------------------------------------------------------- loudness stage
\* L.x, swipe.c:181
loudnessFrames(n, w2) == CeilDiv(n, w2) + 1

\* hann.v[j] = 0 exactly at j = 0, swipe.c:173-175
hannIsZero(j) == j = 0

\* the << j, k >> with fi[j] = x.v[k] * hann.v[j] in frame i, swipe.c:182-204;
\* every other fi[j] is set to 0
frameReads(i, n, w, w2) ==
    LET offset == (i - 1) * w2
    IN  IF i = 0 THEN { << j, j - w2 >> : j \in w2..(w - 1) }
        ELSE IF i < loudnessFrames(n, w2) - 2
             THEN { << j, j + offset >> : j \in 0..(w - 1) }
             ELSE { << j, j + offset >> : j \in 0..(n - offset - 1) }

\* a read of x.v past its end
frameOverruns(i, n, w, w2) == \E r \in frameReads(i, n, w, w2) : r[2] >= n

\* a nonzero sample of the signal reaches the FFT input
frameHasSignal(f, i, w, w2) ==
    \E r \in frameReads(i, f.frames, w, w2) :
        /\ r[2] < f.frames
        /\ ~hannIsZero(r[1])
        /\ Sample(f, r[2]) # 0

\* f.v[j] = j * td in 1/100 Hz, swipe.c:167 and 176-179
fAxis(w2) == [ j \in 0..(w2 - 1) |-> (j * nyquist * 100) \div w2 ]

\* La(), swipe.c:153-156: the knot index hi that bilookv() leaves for the
\* last ERB point; splinv() (vector.c:511-516) reads x, y and y2 at hi
laLastHi(mn, w2) == bisectv(fAxis(w2), w2, fERBs(mn).last)
laKnotOverrun(mn, w2) == laLastHi(mn, w2) >= w2

\* A row of L, swipe.c:143-159 and 209-220, by what it holds:
\*   "tone"     the spectrum of a frame with signal in it
\*   "garbage"  values read past the end of x, or past the knots f, a, a2
\*   "zero"     fftw gives a = 0 for fi = 0; on zero knots splinv() returns
\*              (a^3-a)(b^3-b) y2[lo] y2[hi] h^2/6 <= 0; sqrt() of it is NaN
\*              or 0, fixnan() makes it 0, and normalisation is skipped
loudnessRow(f, mn, i, w, w2) ==
    IF frameHasSignal(f, i, w, w2) THEN "tone"
    ELSE IF frameOverruns(i, f.frames, w, w2) \/ laKnotOverrun(mn, w2)
         THEN "garbage"
         ELSE "zero"

\* rows 0..i of L, as a sequence: row i is its element i + 1
RECURSIVE loudnessRows(_, _, _, _, _)
loudnessRows(f, mn, w, w2, i) ==
    IF i < 0 THEN << >>
    ELSE Append(loudnessRows(f, mn, w, w2, i - 1), loudnessRow(f, mn, i, w, w2))

loudness(f, mn, w, w2) ==
    loudnessRows(f, mn, w, w2, loudnessFrames(f.frames, w2) - 1)

\* ------------------------------------------------------- strength stage
peakIndex(f, K) ==
    CASE f.peak = "first" -> 0
      [] f.peak = "mid" -> K \div 2
      [] f.peak = "last" -> K - 1

\* kernel' * L for candidate c and a row of L, swipe.c:240-277: 0 for a zero
\* row, the tone's response for a tone, g for garbage
rowStrength(row, f, c, K, g) ==
    CASE row = "zero" -> 0
      [] row = "garbage" -> g
      [] row = "tone" ->
            LET v == ToneStrength - ToneSlope * Abs(c - peakIndex(f, K))
            IN  IF v > 0 THEN v ELSE 0

\* The doubles t, tp, td and dtp of swipe.c:279-292.  A double is the pair
\* <<hi, lo>> that stands for (hi * Limb + lo) * 2^-62, 0 <= lo < Limb: every
\* value the loop forms is a multiple of 2^-62 below 2^-3
Limb == 1073741824

dblNorm(hi, lo) == << hi + lo \div Limb, lo % Limb >>

dblSum(a, b) == dblNorm(a[1] + b[1], a[2] + b[2])

dblNeg(a) == dblNorm(0 - a[1], 0 - a[2])

RECURSIVE bitLen(_)
bitLen(h) == IF h = 0 THEN 0 ELSE 1 + bitLen(h \div 2)

\* a >= 0 rounded to 53 significant bits, ties to even
dblRound53(a) ==
    LET r == IF a[1] = 0 THEN 0 ELSE 30 + bitLen(a[1]) - 53
        q == Pow2(r)
        rem == a[2] % q
        up == \/ 2 * rem > q
              \/ 2 * rem = q /\ (a[2] \div q) % 2 = 1
    IN  IF r <= 0 THEN a
        ELSE dblNorm(a[1], a[2] - rem + (IF up THEN q ELSE 0))

dblRound(a) ==
    IF a[1] < 0 THEN dblNeg(dblRound53(dblNeg(a))) ELSE dblRound53(a)

\* x + y and x - y of two doubles
dblAdd(a, b) == dblRound(dblSum(a, b))

dblSub(a, b) == dblRound(dblSum(a, dblNeg(b)))

RECURSIVE dblTimesPow2(_, _)
dblTimesPow2(a, m) ==
    IF m <= 1 THEN a ELSE dblTimesPow2(dblNorm(2 * a[1], 2 * a[2]), m \div 2)

\* the double dt of swipe.c:291: DT (0x1.0624dd2f1a9fcp-10) and 0.0025
\* (0x1.47ae147ae147bp-9)
dblOfStep(step) ==
    CASE step = 2 -> << 4294967, 317827580 >>
      [] step = 5 -> << 10737418, 257698038 >>

\* dtp = w2 / nyquist2, swipe.c:238, for the powers of two w2 >= 8 at a
\* nyquist2 of 8000: 0.001 times w2 / 8
dblOfWindow(w2) == dblTimesPow2(<< 4294967, 317827580 >>, w2 \div 8)

\* the while loop of swipe.c:282-286, entered with k, tp and td = t - tp
RECURSIVE advance(_, _, _, _)
advance(k, tp, td, dtp) ==
    IF td[1] >= 0
    THEN advance(k + 1, dblAdd(tp, dtp), dblSub(td, dtp), dtp)
    ELSE [ k |-> k, tp |-> tp ]

\* the k the loop of swipe.c:279-292 uses for frames j.., k, t and tp being
\* carried from frame to frame
RECURSIVE kLoop(_, _, _, _, _, _, _)
kLoop(j, Sy, k, t, tp, step, w2) ==
    IF j >= Sy THEN << >>
    ELSE LET r == advance(k, tp, dblSub(t, tp), dblOfWindow(w2))
         IN  << r.k >> \o (IF j + 1 >= Sy THEN << >>
                           ELSE kLoop(j + 1, Sy, r.k, dblAdd(t, dblOfStep(step)),
                                      r.tp, step, w2))

kSeq(Sy, step, w2) == kLoop(0, Sy, 0, << 0, 0 >>, << 0, 0 >>, step, w2)

\* Sadd(), swipe.c:228-294, on the rows L; mu[c] in units of 10^-7
Sadd(Sm, L, f, mn, mu, step, lo, hi, w2, K, Sy, g) ==
    LET Lx == Len(L)
        den == w2 * TicksPerSec
        Slocal(c, k) == IF k >= 0 /\ k < Lx
                        THEN rowStrength(L[k + 1], f, c, K, g) ELSE g
        kv == kSeq(Sy, step, w2)
        add(c, j) ==
            LET k == kv[j + 1]
                td == j * step * nyquist2 - k * den
                a == Slocal(c, k)
                b == Slocal(c, k - 1)
                v == (a * den + td * (a - b)) \div den
            IN  (v * (mu[c] \div 10000)) \div 1000
    IN  [ c \in 0..(K - 1) |->
            IF c >= lo /\ c < hi
            THEN [ j \in 0..(Sy - 1) |-> Sm[c][j] + add(c, j) ]
            ELSE Sm[c] ]

dVec(mn, K) == [ i \in 0..(K - 1) |-> dAt(mn, i) ]

\* mu.v[ti] = 1. - fabs(d.v[i] - (n + 1)), swipe.c:310, 333, 357
muVec(mn, K, n) == [ i \in 0..(K - 1) |-> One - Abs(dAt(mn, i) - (n + 1) * One) ]

\* the largest index at which frame i reads x.v, swipe.c:182-204; -1 when
\* it reads none
frameLastRead(i, n, w, w2) ==
    LET offset == (i - 1) * w2
    IN  IF i = 0 THEN w2 - 1
        ELSE IF i < loudnessFrames(n, w2) - 2 THEN w - 1 + offset
             ELSE IF n - offset >= 1 THEN n - 1 ELSE 0 - 1

RECURSIVE lastRead(_, _, _, _)
lastRead(i, n, w, w2) ==
    IF i < 0 THEN 0 - 1
    ELSE LET r == frameLastRead(i, n, w, w2)
             m == lastRead(i - 1, n, w, w2)
         IN  IF r > m THEN r ELSE m

\* a strength pass that read ws.v[n] = w (swipe.c:301-302, 323-324, 347-348)
\* on a signal of N samples: the rows of L, the k of each output frame in
\* Sadd(), the largest index of x.v that loudness() read, the last knot
\* index La() handed to splinv()
passOf(n, w, N, mn, Sy, step) ==
    LET w2 == w \div 2
        Lx == IF w2 = 0 THEN 0 ELSE loudnessFrames(N, w2)
    IN  [ n |-> n, w |-> w, N |-> N, Lx |-> Lx,
          k |-> IF w2 = 0 THEN << >> ELSE kSeq(Sy, step, w2),
          xmax |-> IF w2 = 0 THEN 0 - 1 ELSE lastRead(Lx - 1, N, w, w2),
          hi |-> IF w2 = 0 THEN 0 ELSE laLastHi(mn, w2) ]

\* the weights of a pass added to what the candidates lo..hi-1 received
covAdd(cov, K, mu, lo, hi) ==
    [ c \in 0..(K - 1) |->
        IF c >= lo /\ c < hi
        THEN [ sum |-> cov[c].sum + mu[c], pos |-> cov[c].pos \/ mu[c] > 0 ]
        ELSE cov[c] ]

\* loudness(), swipe.c:169-223: its buffers, and for each of the Lx rows
\* La() (147-158) with spline() (vector.c:481-502)
loudnessHeap(h, Lx) ==
    LET made == run(h, << <<"+", "fi">>, <<"+", "fo">>, <<"+", "plan">>,
                          <<"+", "hann">>, <<"+", "f">>, <<"+", "L">> >>)
        rows == repeat(made, << <<"+", "a">>, <<"+", "a2">>, <<"+", "u">>,
                                <<"-", "u">>, <<"-", "a">>, <<"-", "a2">> >>, Lx)
    IN  run(rows, << <<"-", "hann">>, <<"-", "f">>, <<"-", "plan">>,
                     <<"-", "fi">>, <<"-", "fo">> >>)

\* Sadd(), swipe.c:239-293: Slocal, and q and kernel for each candidate
SaddHeap(h, psz) ==
    run(repeat(run(h, << <<"+", "Slocal">> >>),
               << <<"+", "q">>, <<"+", "kernel">>, <<"-", "q">>,
                  <<"-", "kernel">> >>, psz),
        << <<"-", "Slocal">> >>)

\* a pass that returns without freem(L)
passHeapKeepsL(h, Lx, psz) ==
    run(SaddHeap(run(loudnessHeap(h, Lx), << <<"+", "mu">>, <<"+", "pci">> >>),
                 psz),
        << <<"-", "mu">>, <<"-", "pci">> >>)

\* the body shared by Sfirst(), Snth() and Slast(): loudness(), mu and pci,
\* Sadd(), and the three frees (swipe.c:302-315, 324-339, 348-363)
passHeap(h, Lx, psz) ==
    run(SaddHeap(run(loudnessHeap(h, Lx), << <<"+", "mu">>, <<"+", "pci">> >>),
                 psz),
        << <<"-", "L">>, <<"-", "mu">>, <<"-", "pci">> >>)

\* Sfirst(), swipe.c:297-316
Sfirst ==
    /\ at = "Sfirst"
    /\ LET w == wsAt(sw.min, 0)
             w2 == w \div 2
             L == loudness(wav, sw.min, w, w2)
             lo == 0
             hi == bisectv(dVec(sw.min, sw.K), sw.K, 2 * One)
             mu == muVec(sw.min, sw.K, 0)
         IN  /\ S' = Sadd(S, L, wav, sw.min, mu, sw.dt, lo, hi, w2, sw.K, sw.Sy,
                          sw.g)
             /\ sw' = [ sw EXCEPT
                          !.i = 1,
                          !.pass = Append(@, passOf(0, w, wav.frames, sw.min,
                                                 sw.Sy, sw.dt)),
                          !.cov = covAdd(@, sw.K, mu, lo, hi),
                          !.heap = passHeap(@, Len(L), hi - lo) ]
    /\ stages' = stages \cup {"loudness", "strength"}
    /\ at' = "Snth"
    /\ UNCHANGED << pt, vt, argv, min, max, st, dt, vlo, mel, batch, wav, p, opened,
                    outs, status >>

\* Snth(), swipe.c:319-340, under the loop of swipe.c:480-482
Snth ==
    /\ at = "Snth"
    /\ sw.i < sw.wsx - 1
    /\ LET n == sw.i
             w == wsAt(sw.min, n)
             w2 == w \div 2
             L == loudness(wav, sw.min, w, w2)
             lo == bisectv(dVec(sw.min, sw.K), sw.K, n * One)
             hi == bisectv(dVec(sw.min, sw.K), sw.K, (n + 2) * One)
             mu == muVec(sw.min, sw.K, n)
         IN  /\ S' = Sadd(S, L, wav, sw.min, mu, sw.dt, lo, hi, w2, sw.K, sw.Sy,
                          sw.g)
             /\ sw' = [ sw EXCEPT
                          !.i = sw.i + 1,
                          !.pass = Append(@, passOf(n, w, wav.frames, sw.min,
                                                 sw.Sy, sw.dt)),
                          !.cov = covAdd(@, sw.K, mu, lo, hi),
                          !.heap = passHeap(@, Len(L), hi - lo) ]
    /\ UNCHANGED << pt, vt, at, argv, min, max, st, dt, vlo, mel, batch, wav, p, opened,
                    stages, outs, status >>

\* what ws.v[n] can hold when n is past the end of ws
GarbageWindows == {0, 16}

\* Slast(), swipe.c:343-364, called with the i the loop ended with
\* (swipe.c:483); a window size of 0 divides by zero in loudness() (181)
Slast ==
    /\ at = "Snth"
    /\ ~(sw.i < sw.wsx - 1)
    /\ \E w \in IF sw.i < sw.wsx THEN { wsAt(sw.min, sw.i) } ELSE GarbageWindows :
         IF w \div 2 = 0
         THEN /\ Exit(SIGSEGV)
              /\ S' = S
              /\ sw' = [ sw EXCEPT
                           !.pass = Append(@, passOf(sw.i, w, wav.frames, sw.min,
                                                 sw.Sy, sw.dt)),
                           !.heap = run(@, << <<"+", "fi">>, <<"+", "fo">>,
                                              <<"+", "plan">>, <<"+", "hann">>,
                                              <<"+", "f">> >>) ]
         ELSE LET n == sw.i
                  w2 == w \div 2
                  L == loudness(wav, sw.min, w, w2)
                  lo == bisectv(dVec(sw.min, sw.K), sw.K, n * One)
                  hi == sw.K
                  mu == muVec(sw.min, sw.K, n)
              IN  /\ S' = Sadd(S, L, wav, sw.min, mu, sw.dt, lo, hi, w2, sw.K,
                               sw.Sy, sw.g)
                  /\ sw' = [ sw EXCEPT
                               !.pass = Append(@, passOf(n, w, wav.frames, sw.min,
                                                 sw.Sy, sw.dt)),
                               !.cov = covAdd(@, sw.K, mu, lo, hi),
                               !.heap = passHeap(@, Len(L), hi - lo) ]
                  /\ at' = "pitch"
                  /\ status' = status
    /\ UNCHANGED << pt, vt, argv, min, max, st, dt, vlo, mel, batch, wav, p, opened,
                    stages, outs >>

\* -------------------------------------------------------- pitch extractor
\* (pow(2, e) - 1) in units of 10^-4, e in units of 10^-7, |e| < 0.03:
\* e ln 2 + (e ln 2)^2 / 2
exp2m1(e) ==
    LET y7 == (e * 6931) \div 10000
        y5 == y7 \div 100
    IN  RoundDiv(y7 + (y5 * y5) \div 2000, 1000)

\* search, swipe.c:371
searchCount(pcl) == RoundDiv(pcl[2] - pcl[0] + POLYV, POLYV)

\* ntc.v[m] / (2 pi), swipe.c:375-381
ntc(pcl, m) == exp2m1(pcl[1] - pcl[m])

\* the scan of column j for its maximum over the rows i .. K - 1, swipe.c:
\* 384-390, entered with maxv and maxi; maxi = -1 stands for the
\* uninitialised maxi.  The test is S.m[i][j] > maxv, so the scan ends with
\* the largest value above maxv and the first row that holds it: the result
\* for the rows i .. K - 1 is that of the second half of them where it is
\* above that of the first half, and that of the first half otherwise
RECURSIVE columnMax(_, _, _, _, _, _)
columnMax(Sm, j, i, K, maxv, maxi) ==
    IF i >= K THEN << maxv, maxi >>
    ELSE IF K - i = 1
         THEN IF ~isnan(Sm[i][j]) /\ Sm[i][j] > maxv
              THEN << Sm[i][j], i >>
              ELSE << maxv, maxi >>
         ELSE LET md == (i + K) \div 2
                  first == columnMax(Sm, j, i, md, maxv, maxi)
                  second == columnMax(Sm, j, md, K, maxv, maxi)
              IN  IF second[1] > first[1] THEN second ELSE first

\* the voicing test with >= for >, and with the comparison reversed for a
\* column that has a maximum
voicedLoose(maxv, thr) == maxv >= thr
voicedReversed(maxv, thr) == maxv > SHRT_MIN * StUnit /\ maxv < thr

\* swipe.c:391, "make sure it's big enough"
voiced(maxv, thr) == maxv > thr

\* polyval(polyfit(ntc, s, 2), u) times |u0 u2 (u0 - u2)|, swipe.c:401-405
\* and vector.c:520-557: the parabola through (u0, s0), (0, s1), (u2, s2)
polyNum(u0, u2, s0, s1, s2, u) ==
    LET e0 == s0 - s1
        e2 == s2 - s1
        Anum == e0 * u2 - e2 * u0
        Bnum == e2 * u0 * u0 - e0 * u2 * u2
    IN  s1 * Abs(u0 * u2 * (u0 - u2)) - (Anum * u * u + Bnum * u)

\* the scan of the nftc space, swipe.c:402-410.  A finite nftc exceeds the
\* initial maxv = SHRT_MIN, so i = 0 starts as the best
RECURSIVE refineMax(_, _, _, _, _, _, _, _, _, _)
refineMax(u0, u2, s0, s1, s2, gap, i, search, best, besti) ==
    IF i >= search THEN besti
    ELSE LET v == polyNum(u0, u2, s0, s1, s2, exp2m1(gap - i * POLYV))
         IN  IF i = 0 \/ v > best
             THEN refineMax(u0, u2, s0, s1, s2, gap, i + 1, search, v, i)
             ELSE refineMax(u0, u2, s0, s1, s2, gap, i + 1, search, best, besti)

\* the pitch reported for a voiced frame at an end of the grid, swipe.c:392-394
endPitch(pcl, maxi) == pcl[0]

\* p.v[j], swipe.c:383-418, as log2 of the pitch in Hz, units of 10^-7.
\* With a NaN among the three strengths the fit is NaN, no nftc beats maxv
\* and maxi keeps the candidate's index
pitchAt(Sm, pcl, K, thr, j) ==
    LET mx == columnMax(Sm, j, 0, K, SHRT_MIN * StUnit, 0 - 1)
        maxv == mx[1]
        maxi == mx[2]
    IN  IF voiced(maxv, thr)
        THEN IF maxi = 0 \/ maxi = K - 1
             THEN endPitch(pcl, maxi)
             ELSE LET log2pc == pcl[maxi - 1]
                      s0 == Sm[maxi - 1][j]
                      s1 == Sm[maxi][j]
                      s2 == Sm[maxi + 1][j]
                      best ==
                          IF isnan(s0) \/ isnan(s2) THEN maxi
                          ELSE refineMax(ntc(pcl, 0), ntc(pcl, 2), s0, s1, s2,
                                         pcl[maxi] - log2pc, 0,
                                         searchCount(pcl), 0, 0)
                  IN  log2pc + best * POLYV
        ELSE NaN

\* pitch(), swipe.c:367-422
pitch(Sm, pcl, K, Sy, thr) == [ j \in 0..(Sy - 1) |-> pitchAt(Sm, pcl, K, thr, j) ]

pcVec(mn, K) == [ i \in 0..(K - 1) |-> pcLog2(mn, i) ]

\* the frames pitch() calls polyfit() for, swipe.c:391-401: voiced, with the
\* maximum inside the grid
fitted(Sm, K, Sy, thr) ==
    { j \in 0..(Sy - 1) :
        LET mx == columnMax(Sm, j, 0, K, SHRT_MIN * StUnit, 0 - 1)
        IN  voiced(mx[1], thr) /\ mx[2] # 0 /\ mx[2] # K - 1 }

\* polyfit(), vector.c:525-546: Ap, Bp and work are allocated, Ap is freed
\* (539) and Bp returned
polyfitHeap(h) ==
    run(h, << <<"+", "Ap">>, <<"+", "Bp">>, <<"+", "work">>, <<"-", "Ap">> >>)

\* pitch(), swipe.c:377-421: s, ntc and p; for each fitted frame polyfit()
\* and freev(coefs) (411); freev(ntc), freev(s)
RECURSIVE fitHeap(_, _)
fitHeap(h, k) ==
    IF k <= 0 THEN h
    ELSE LET h1 == release(polyfitHeap(h), "Bp")
         IN  IF h1 = h THEN h ELSE fitHeap(h1, k - 1)

pitchHeap(h, fits) ==
    run(fitHeap(run(h, << <<"+", "s">>, <<"+", "ntc">>, <<"+", "p">> >>), fits),
        << <<"-", "ntc">>, <<"-", "s">> >>)

\* the elements of pc that pitch() reads before its loop, swipe.c:371-380:
\* pc.v[0] and pc.v[2] for search, pc.v[1] for tc2, pc.v[0] and pc.v[2] for
\* ntc.  What it reads past the end of pc goes into search and ntc only,
\* which a frame uses when its maximum is inside the grid (402-410)
pitchReads == {0, 1, 2}

\* swipe.c:484-492: the frees, pitch(), and the return
swipeReturn ==
    /\ at = "pitch"
    /\ p' = pitch(S, pcVec(sw.min, sw.K), sw.K, sw.Sy, sw.st)
    /\ sw' = [ sw EXCEPT
                 !.pcr = pitchReads,
                 !.heap =
                 run(pitchHeap(run(@, << <<"-", "fERBs">>, <<"-", "ws">>,
                                         <<"-", "ps">>, <<"-", "d">>,
                                         <<"-", "x">> >>),
                               Cardinality(fitted(S, sw.K, sw.Sy, sw.st))),
                     << <<"-", "pc">>, <<"-", "S">> >>) ]
    /\ stages' = stages \cup {"pitch"}
    /\ at' = "ret"
    /\ UNCHANGED << pt, vt, argv, min, max, st, dt, vlo, mel, batch, wav, S, opened,
                    outs, status >>

\* p.x
VecLen(v) == Cardinality(DOMAIN v)

\* main() testing what swipe() returned, swipe.c:642-646 and 658-661
ret ==
    /\ at = "ret"
    /\ IF VecLen(p) = NOK
       THEN Exit(EXIT_FAILURE)
       ELSE /\ at' = "printp"
            /\ status' = status
    /\ UNCHANGED << pt, vt, argv, min, max, st, dt, vlo, mel, batch, wav, sw, S, p,
                    opened, stages, outs >>

\* ------------------------------------------------------------- printp()
\* The Hz a pitch held as its log2 stands for, pow(2, .) of swipe.c:412 and
\* 463: 2^q times 1 + 0.657 x + 0.343 x^2 for the fraction x
hzOf(v) ==
    LET q == v \div One
        x3 == (v % One) \div 10000
        m == 1000 + (657 * x3) \div 1000 + (343 * x3 * x3) \div 1000000
    IN  (Pow2(q) * m) \div 1000

\* 1127.01048 * log(1 + hz / 700) in 1/10 mel at 0, 64, 128, ..., 8192 Hz
MelKnots == << 0, 986, 1893, 3513, 6187, 10158, 15412, 21689, 28647 >>

RECURSIVE melSeg(_, _, _)
melSeg(hz, lo, k) ==
    IF hz < 2 * lo \/ k = 8
    THEN MelKnots[k] + ((MelKnots[k + 1] - MelKnots[k]) * (hz - lo)) \div lo
    ELSE melSeg(hz, 2 * lo, k + 1)

\* hz2mel(), swipe.c:126-128, linear between the knots; log() of NaN is NaN
hz2mel(v) ==
    IF isnan(v) THEN NaN
    ELSE LET hz == hzOf(v)
         IN  IF hz < 64 THEN (MelKnots[2] * hz) \div 64 ELSE melSeg(hz, 64, 2)

\* what "%5.4f" is given for p.v[i], swipe.c:513, 520, 529, 536
shown(v, toMel) ==
    IF toMel THEN hz2mel(v) ELSE IF isnan(v) THEN NaN ELSE hzOf(v)

\* the loops with a time counter that advances with the lines written
RECURSIVE printLoopLineClock(_, _, _, _, _, _)
printLoopLineClock(v, i, t, step, toMel, voiceless) ==
    IF i >= VecLen(v) THEN << >>
    ELSE IF voiceless \/ ~isnan(v[i])
         THEN << [ t |-> t, v |-> shown(v[i], toMel) ] >>
              \o printLoopLineClock(v, i + 1, t + step, step, toMel, voiceless)
         ELSE printLoopLineClock(v, i + 1, t, step, toMel, voiceless)

\* the four loops of swipe.c:510-541: the lines written for elements i.. of
\* the vector, t being the time counter
RECURSIVE printLoop(_, _, _, _, _, _)
printLoop(v, i, t, step, toMel, voiceless) ==
    IF i >= VecLen(v) THEN << >>
    ELSE LET line == [ t |-> t, v |-> shown(v[i], toMel) ]
             rest == printLoop(v, i + 1, t + step, step, toMel, voiceless)
         IN  IF voiceless \/ ~isnan(v[i]) THEN << line >> \o rest ELSE rest

\* printp(p, out, dt, mel, vlo), swipe.c:496-543, and what follows it in
\* main(), swipe.c:649-652 and 665-667; a sink that cannot be opened ends
\* the program (505-508)
printp ==
    /\ at = "printp"
    /\ \E writable \in BOOLEAN :
         IF writable
         THEN /\ outs' = Append(outs, printLoop(p, 0, 0, dt, mel, vlo))
              /\ IF argv.b
                 THEN /\ at' = "batch"
                      /\ status' = status
                 ELSE Exit(EXIT_SUCCESS)
         ELSE /\ Exit(EXIT_FAILURE)
              /\ outs' = outs
    /\ UNCHANGED << pt, vt, argv, min, max, st, dt, vlo, mel, batch, wav, sw, S, p,
                    opened, stages >>

Next ==
    \/ getopt
    \/ sanity
    \/ batchNext
    \/ single
    \/ swipeOpen
    \/ plan
    \/ Sfirst
    \/ Snth
    \/ Slast
    \/ swipeReturn
    \/ ret
    \/ printp

Spec == Init /\ [][Next]_vars

\* ------------------------------------------------ pitch() on its own
\* the strengths and thresholds pitch() is given, and the longest grid
StrengthVals == { NaN, 0, ST, 60 }
Thresholds == { 0, ST, 60 }
MaxK == 4

PitchInputs ==
    UNION { { [ NoPt EXCEPT !.S = Sm, !.K = K, !.st1 = a, !.st2 = b ] :
                a \in Thresholds, b \in Thresholds,
                Sm \in [ 0..(K - 1) -> [ 0..0 -> StrengthVals ] ] } :
            K \in 3..MaxK }

InitPitch ==
    /\ MainInit
    /\ pt \in PitchInputs
    /\ vt = NoVt

\* pitch(S, pc, st) called with each of the two thresholds
pitchCall ==
    /\ ~pt.done
    /\ pt' = [ pt EXCEPT
                 !.p1 = pitch(pt.S, pcVec(MIN, pt.K), pt.K, 1, pt.st1),
                 !.p2 = pitch(pt.S, pcVec(MIN, pt.K), pt.K, 1, pt.st2),
                 !.done = TRUE ]
    /\ UNCHANGED << at, argv, min, max, st, dt, vlo, mel, batch, wav, sw, S, p,
                    opened, stages, outs, status, vt >>

NextPitch == pitchCall

SpecPitch == InitPitch /\ [][NextPitch]_vars

\* ------------------------------- sieve(), bisectv(), kernels on their own
\* vector.h:87-90
P == 1
NP == 0
PRIME(x) == x = 1

\* onesiv(), vector.c:185-192
onesiv(n) == [ i \in 0..(n - 1) |-> 1 ]

RECURSIVE rootUp(_, _)
rootUp(n, r) == IF (r + 1) * (r + 1) <= n THEN rootUp(n, r + 1) ELSE r

\* the root taken one too small
sqrtFloorShort(n) == rootUp(n, 0) - 1

\* floor(sqrt(ones.x)), vector.c:440
sqrtFloor(n) == rootUp(n, 0)

\* the inner loop of sieve(), vector.c:444-446: j = i + i + 1, then in steps
\* of i + 1
markMultiples(t, i, n) ==
    [ j \in 0..(n - 1) |->
        IF j > i /\ (j - i) % (i + 1) = 0 THEN NP ELSE t[j] ]

\* the marking loop, vector.c:442-449, from index i on; k counts
RECURSIVE sieveMark(_, _, _, _, _)
sieveMark(t, n, i, sp, k) ==
    IF i >= sp THEN [ ones |-> t, k |-> k ]
    ELSE IF PRIME(t[i])
         THEN sieveMark(markMultiples(t, i, n), n, i + 1, sp, k + 1)
         ELSE sieveMark(t, n, i + 1, sp, k)

\* the counting loop, vector.c:450-454
RECURSIVE sieveCount(_, _, _, _)
sieveCount(t, n, i, k) ==
    IF i >= n THEN k
    ELSE sieveCount(t, n, i + 1, IF PRIME(t[i]) THEN k + 1 ELSE k)

\* sieve(), vector.c:436-456, on a table of n entries: the table it leaves
\* and the count it returns
sieve(ones, n) ==
    LET sp == sqrtFloor(n)
        r == sieveMark([ ones EXCEPT ![0] = NP ], n, 1, sp, 0)
    IN  [ ones |-> r.ones, k |-> sieveCount(r.ones, n, sp, r.k) ]

\* the loop of primes(), vector.c:463-467
RECURSIVE primesFill(_, _, _)
primesFill(t, n, i) ==
    IF i >= n THEN << >>
    ELSE (IF PRIME(t[i]) THEN << i + 1 >> ELSE << >>) \o primesFill(t, n, i + 1)

\* primes(), vector.c:458-470: myPrimes.x and what is written to myPrimes.v
primes(n) ==
    LET r == sieve(onesiv(n), n)
    IN  [ x |-> r.k, v |-> primesFill(r.ones, n, 0) ]

\* ps as swipe() prepares it, swipe.c:475-477: ones, sieved, index 0 forced
forced(n) == [ sieve(onesiv(n), n).ones EXCEPT ![0] = P ]

\* ps.x, swipe.c:475: floor(fERBs.v[fERBs.x - 1] / pc.v[0] - .75)
psLen(mn) == (fERBs(mn).last - 75 * mn) \div (100 * mn)

\* plim, swipe.c:245, for a candidate of pc Hz
plim(mn, pc) == (fERBs(mn).last - 75 * pc) \div (100 * pc)

\* The harmonics j + 1 that change an entry of the kernel of a candidate of
\* pc Hz, swipe.c:247-259: marked in ps, with fabs(q.v[k] - j - 1.) < .75
\* for some k.  The ERB points are less than 1.5 pc apart (46 Hz at most),
\* so there is such a k exactly when (j + 1 - .75) pc and (j + 1 + .75) pc
\* enclose a part of fERBs.v[0] = min / 4 .. fERBs.v[fERBs.x - 1]
kernelHarmonics(mn, pc) ==
    { h \in 1..psLen(mn) :
        /\ PRIME(forced(psLen(mn))[h - 1])
        /\ (100 * h - 75) * pc < fERBs(mn).last
        /\ (100 * h + 75) * pc > 25 * mn }

\* the longest sieve, the longest vector and the largest value searched
MaxSieve == 30
MaxLen == 4
MaxVal == 5

\* strictly increasing vectors of n elements
Increasing(n) ==
    { v \in [ 0..(n - 1) -> 0..MaxVal ] : \A i \in 1..(n - 1) : v[i - 1] < v[i] }

\* the requests whose candidates get a kernel
KernelRanges == { <<MIN, MAX>>, <<1000, 4000>> }

VectorInputs ==
    { [ NoVt EXCEPT !.fn = "sieve", !.n = n ] : n \in 1..MaxSieve }
    \cup UNION { { [ NoVt EXCEPT !.fn = "bisect", !.n = n, !.v = v,
                                 !.key = a, !.key2 = b ] :
                     v \in Increasing(n), a \in 0..MaxVal, b \in 0..MaxVal } :
                   n \in 2..MaxLen }
    \cup UNION { { [ NoVt EXCEPT !.fn = "kernel", !.mn = r[1], !.c = c ] :
                     c \in 0..(pcCount(r[1], r[2]) - 1) } :
                   r \in KernelRanges }

InitVector ==
    /\ MainInit
    /\ pt = NoPt
    /\ vt \in VectorInputs

\* sieve(ps) on ones with ps.v[0] = P after it, and primes(n)
sieveCall ==
    /\ vt.fn = "sieve" /\ ~vt.done
    /\ vt' = [ vt EXCEPT !.ps = forced(vt.n), !.primes = primes(vt.n),
                         !.done = TRUE ]
    /\ UNCHANGED << at, argv, min, max, st, dt, vlo, mel, batch, wav, sw, S, p,
                    opened, stages, outs, status, pt >>

\* hi = bisectv(v, key); hi2 = bilookv(v, key2, hi - 1), vector.c:642-644
bisectCall ==
    /\ vt.fn = "bisect" /\ ~vt.done
    /\ LET hi == bisectv(vt.v, vt.n, vt.key)
       IN  vt' = [ vt EXCEPT !.hi = hi,
                             !.hi2 = bilookv(vt.v, vt.n, vt.key2, hi - 1),
                             !.done = TRUE ]
    /\ UNCHANGED << at, argv, min, max, st, dt, vlo, mel, batch, wav, sw, S, p,
                    opened, stages, outs, status, pt >>

\* the kernel of candidate c built, swipe.c:240-259
kernelCall ==
    /\ vt.fn = "kernel" /\ ~vt.done
    /\ LET pc == hzOf(pcLog2(vt.mn, vt.c))
       IN  vt' = [ vt EXCEPT !.harm = kernelHarmonics(vt.mn, pc),
                             !.plim = plim(vt.mn, pc), !.done = TRUE ]
    /\ UNCHANGED << at, argv, min, max, st, dt, vlo, mel, batch, wav, sw, S, p,
                    opened, stages, outs, status, pt >>

NextVector ==
    \/ sieveCall
    \/ bisectCall
    \/ kernelCall

SpecVector == InitVector /\ [][NextVector]_vars

\* ---------------------------------------------------------------- claims
\* the least c with c * SampleRate >= n * TicksPerSec: n samples in ticks,
\* rounded up
IsTicksOf(c, n) ==
    /\ c * SampleRate >= n * TicksPerSec
    /\ (c - 1) * SampleRate < n * TicksPerSec

\* C1: when swipe() has returned for a signal of N >= 1 samples, the pitch
\* vector has exactly m = ceil((N / fs) / dt) elements, indexed 0..m-1, one
\* per column of S: m is the least integer with m * dt >= N / fs, dt being
\* the timestep in effect inside swipe()
C1_PitchVectorLength ==
    (at \in {"ret", "printp"} /\ wav.kind = "audio" /\ wav.frames >= 1) =>
        LET m == VecLen(p)
        IN  /\ DOMAIN p = 0..(m - 1)
            /\ \A i \in DOMAIN S : DOMAIN S[i] = DOMAIN p
            /\ \E c \in 0..wav.frames :
                  /\ IsTicksOf(c, wav.frames)
                  /\ m * sw.dt >= c
                  /\ (m - 1) * sw.dt < c

\* C2: in pitch(), frame j is unvoiced (NaN) exactly when no strength of
\* column j exceeds the threshold, i.e. the column's maximum is <= st; when
\* the maximum is > st the frame carries a pitch, never NaN
C2_UnvoicedIffMaxAtMostThreshold ==
    pt.done =>
        \A j \in DOMAIN pt.p1 :
            isnan(pt.p1[j]) <=>
                ~(\E i \in 0..(pt.K - 1) :
                      ~isnan(pt.S[i][j]) /\ pt.S[i][j] > pt.st1)

\* a column whose maximum equals the threshold is unvoiced, and voiced
\* under a lower threshold
C2_Witness ==
    /\ pt.done
    /\ isnan(pt.p1[0])
    /\ \E i \in 0..(pt.K - 1) : pt.S[i][0] = pt.st1
    /\ ~isnan(pt.p2[0])

\* the strength S[i][j] is above the threshold and above every other
\* strength of column j
IsPeak(i, j) ==
    /\ ~isnan(pt.S[i][j])
    /\ pt.S[i][j] > pt.st1
    /\ \A k \in 0..(pt.K - 1) :
          k # i => (isnan(pt.S[k][j]) \/ pt.S[k][j] < pt.S[i][j])

\* C3: in pitch(), a voiced frame whose argmax is an end of the grid reports
\* the grid value at that end: pc[0] for i* = 0 and pc[K-1] for i* = K-1
C3_EndReportsItsGridValue ==
    pt.done =>
        \A j \in DOMAIN pt.p1 :
            /\ IsPeak(0, j) => pt.p1[j] = pcLog2(MIN, 0)
            /\ IsPeak(pt.K - 1, j) => pt.p1[j] = pcLog2(MIN, pt.K - 1)

\* C4: once the planner has derived its window sizes and grid, the
\* parameters it worked with satisfy min >= 1, max <= fs/2, max - min >= 1
\* and dt >= 0.001
C4_PlannerParametersValid ==
    "planner" \in stages =>
        /\ sw.min >= 1
        /\ sw.max <= nyquist
        /\ sw.max - sw.min >= 1
        /\ sw.dt >= MinStep

\* C5: if after option parsing min < 1 or max - min < 1, main() can only
\* exit, with status 1, and no input has been opened, no pitch computed and
\* no output written, with -b and without
C5_BadRangeExitsBeforeAnyWork ==
    (argv.quit = "no" /\ at # "getopt" /\ (min < 1 \/ max - min < 1)) =>
        /\ at \in {"sanity", "exit"}
        /\ at = "exit" => status = EXIT_FAILURE
        /\ opened = << >>
        /\ outs = << >>
        /\ stages = {}
        /\ VecLen(p) = 0

\* batch mode with a list to read, min >= 1 and max - min < 1: exit(1)
C5_Witness ==
    /\ at = "exit" /\ argv.quit = "no"
    /\ argv.b /\ batch # << >>
    /\ min >= 1 /\ max - min < 1

\* the output's lines are spaced by the timestep t
WrittenWith(o, t) ==
    \A k \in 1..Len(o) :
        /\ o[k].t % t = 0
        /\ vlo => o[k].t = (k - 1) * t

\* C6: a threshold outside [0, 1] is replaced by 0.3 and a timestep below
\* 0.001 by 0.001; main() goes on, and swipe() and printp() are given the
\* replaced values
C6_ThresholdAndTimestepCorrected ==
    (argv.quit = "no" /\ at \notin {"getopt", "sanity"}
        /\ min >= 1 /\ max - min >= 1) =>
        LET s == IF argv.s < 0 \/ argv.s > StUnit THEN ST ELSE argv.s
            t == IF argv.t < MinStep THEN DT ELSE argv.t
        IN  /\ st = s /\ dt = t
            /\ at = "exit" =>
                  (opened # << >> \/ (argv.b /\ status = EXIT_SUCCESS))
            /\ at = "plan" => (sw.st = s /\ sw.dt = t)
            /\ at = "pitch" => sw.st = s
            /\ \A n \in 1..Len(outs) : WrittenWith(outs[n], t)

\* -s 1.1 -t 0.0005 given: swipe() is running with 0.3 and 0.001
C6_Witness ==
    /\ at = "plan"
    /\ argv.s > StUnit /\ argv.t < MinStep
    /\ sw.st = ST /\ sw.dt = DT

\* the input at hand cannot be read as audio, or holds no sample
Unusable(f) ==
    \/ f.kind \in {"missing", "notaudio"}
    \/ f.kind = "audio" /\ f.frames = 0

\* C7: for an input that is not readable as audio or holds zero samples no
\* pipeline stage is executed, and the program exits with nonzero status
C7_UnusableInputSkipsThePipeline ==
    Unusable(wav) =>
        /\ stages = {}
        /\ at # "printp"
        /\ (at = "exit" /\ opened # << >>) => status # EXIT_SUCCESS

\* C8: for a signal whose samples are all 0, every element of the pitch
\* vector swipe() returns is unvoiced
C8_SilenceIsUnvoiced ==
    (at \in {"ret", "printp"} /\ wav.kind = "audio" /\ wav.frames >= 1
        /\ \A k \in 0..(wav.frames - 1) : Sample(wav, k) = 0) =>
        \A j \in DOMAIN p : isnan(p[j])

\* C9: for one strength matrix and grid and st1 <= st2, every frame pitch()
\* marks unvoiced with st1 it marks unvoiced with st2
C9_ThresholdMonotone ==
    (pt.done /\ pt.st1 <= pt.st2) =>
        \A j \in DOMAIN pt.p1 : isnan(pt.p1[j]) => isnan(pt.p2[j])

\* a frame voiced under st1 and unvoiced under the larger st2
C9_Witness ==
    /\ pt.done /\ pt.st1 < pt.st2
    /\ ~isnan(pt.p1[0]) /\ isnan(pt.p2[0])

\* the frames printp() writes a line for
Printed == { j \in DOMAIN p : vlo \/ ~isnan(p[j]) }

C11_SingleWindowReadsInsideWs ==
    sw.wsx = 1 =>
        /\ \A k \in 1..Len(sw.pass) : sw.pass[k].n < sw.wsx
        /\ at = "pitch" => (Len(sw.pass) = 1 /\ sw.pass[1].n = 0)

\* C12: after Sfirst, every Snth and Slast (ws_count >= 2) every candidate
\* has received a weight mu > 0, and the weights of every candidate with
\* 1 <= d[i] <= ws_count - 1, summed over the windows whose band held it,
\* are exactly 1
C12_WeightsCoverEveryCandidate ==
    (at = "pitch" /\ sw.wsx >= 2) =>
        \A c \in 0..(sw.K - 1) :
            /\ sw.cov[c].pos
            /\ (dAt(sw.min, c) >= One /\ dAt(sw.min, c) <= (sw.wsx - 1) * One)
                  => sw.cov[c].sum = One

\* C13: in La() no ERB point, those above the last analysis frequency
\* f[W2-1] included, leaves a knot index hi that makes splinv() read f, a or
\* a2 outside 0..W2-1
C13_KnotsStayInsideTheSpectrum ==
    \A k \in 1..Len(sw.pass) :
        sw.pass[k].w \div 2 > 0 => sw.pass[k].hi <= sw.pass[k].w \div 2 - 1

\* C14: for N >= 1 samples and a window W, loudness() makes ceil(N / W2) + 1
\* frames and reads no sample outside 0..N-1
C14_FramesReadInsideTheSignal ==
    wav.frames >= 1 =>
        \A k \in 1..Len(sw.pass) :
            LET w2 == sw.pass[k].w \div 2
            IN  w2 > 0 =>
                  /\ (sw.pass[k].Lx - 1) * w2 >= wav.frames
                  /\ (sw.pass[k].Lx - 2) * w2 < wav.frames
                  /\ sw.pass[k].xmax <= wav.frames - 1

\* r is the integer nearest to log2(num / den)
IsNearestLog2(r, num, den) ==
    2 * Abs(r * One - (Log2e7(num) - Log2e7(den))) <= One

\* ws.v[i] = 2^r / 2^i for i = 0..ws_count-1
HalvesFrom(r) ==
    /\ DOMAIN sw.ws = 0..(sw.wsx - 1)
    /\ \A i \in DOMAIN sw.ws : sw.ws[i] * Pow2(i) = Pow2(r)

\* C16, as stated: the window sizes are ws[i] = 2^round(log2(16 fs / min)) /
\* 2^i for i = 0..ws_count-1, fs the sample rate
C16_WindowSizesFromSixteenFs ==
    sw.wsx >= 1 =>
        \E r \in 0..24 : IsNearestLog2(r, 16 * SampleRate, sw.min) /\ HalvesFrom(r)

\* C16, amended: the window sizes are ws[i] = 2^round(log2(8 fs / min)) / 2^i
\* for i = 0..ws_count-1, fs the sample rate (8 fs is 16 times the Nyquist
\* frequency): powers of two, each half the one before
C16_WindowSizesFromEightFs ==
    sw.wsx >= 1 =>
        \E r \in 0..24 : IsNearestLog2(r, 8 * SampleRate, sw.min) /\ HalvesFrom(r)

\* three windows planned, 64, 32 and 16 samples for min = 1000 Hz at 8 kHz
C16_Witness ==
    /\ at = "Sfirst" /\ sw.wsx = 3
    /\ sw.ws[0] = 64 /\ sw.ws[1] = 32 /\ sw.ws[2] = 16

\* C19: at every point of swipe() at most one loudness matrix is allocated;
\* the one of window n is freed before loudness() is called for window n+1
C19_OneLoudnessMatrixAtATime ==
    /\ sw.heap.peakL <= 1
    /\ at \in {"Snth", "pitch"} => sw.heap.live["L"] = 0

\* three passes done, each with its own loudness matrix
C19_Witness ==
    /\ at = "pitch" /\ Len(sw.pass) >= 3
    /\ sw.heap.peakL = 1

\* C20: when swipe() has returned, every buffer allocated during the call
\* has been released exactly once, except the pitch vector returned
C20_OnlyThePitchVectorRemains ==
    at = "ret" =>
        /\ ~sw.heap.bad
        /\ \A b \in Buffers : sw.heap.live[b] = IF b = "p" THEN 1 ELSE 0

\* m is a prime number
IsPrime(m) == m >= 2 /\ \A k \in 2..(m - 1) : m % k # 0

\* C15: the kernel of a candidate is changed only by harmonics h that are
\* marked prime (1, 2, 3, 5, 7, ...) and are <= floor(fERBs_max / pc - 0.75)
\* for that candidate's own pitch pc
C15_HarmonicsWithinTheCandidatesLimit ==
    (vt.fn = "kernel" /\ vt.done) =>
        \A h \in vt.harm : (h = 1 \/ IsPrime(h)) /\ h <= vt.plim

\* C17: for a table of n >= 1 ones, after sieve() and the forcing of index
\* 0, ps[i] = 1 exactly when i = 0 or i + 1 is prime; primes(n) lists the
\* primes <= n in increasing order, and as many as sieve() counted
C17_SieveMarksThePrimes ==
    (vt.fn = "sieve" /\ vt.done) =>
        /\ DOMAIN vt.ps = 0..(vt.n - 1)
        /\ \A i \in 0..(vt.n - 1) : PRIME(vt.ps[i]) <=> (i = 0 \/ IsPrime(i + 1))
        /\ vt.primes.x = Len(vt.primes.v)
        /\ { vt.primes.v[k] : k \in 1..Len(vt.primes.v) }
              = { m \in 1..vt.n : IsPrime(m) }
        /\ \A k \in 2..Len(vt.primes.v) : vt.primes.v[k - 1] < vt.primes.v[k]

\* a table of 25 entries, whose last stands for the square of a prime
C17_Witness ==
    /\ vt.fn = "sieve" /\ vt.done /\ vt.n = 25
    /\ vt.ps[24] = NP /\ vt.ps[22] = P
    /\ vt.primes.v = << 2, 3, 5, 7, 11, 13, 17, 19, 23 >>

\* key lies between v[i-1] (included) and v[i]
Brackets(v, n, i, key) ==
    /\ i \in 1..(n - 1)
    /\ v[i - 1] <= key
    /\ key < v[i]

\* C18: for a strictly increasing v of n >= 2 elements and v[0] <= key <
\* v[n-1], bisectv(v, key) returns hi with v[hi-1] <= key < v[hi], and
\* bilookv(v, key2, hi - 1) for a key2 >= key (below v[n-1]) returns hi2
\* with v[hi2-1] <= key2 < v[hi2]
C18_BisectionBrackets ==
    (vt.fn = "bisect" /\ vt.done /\ vt.v[0] <= vt.key
        /\ vt.key < vt.v[vt.n - 1]) =>
        /\ Brackets(vt.v, vt.n, vt.hi, vt.key)
        /\ (vt.key2 >= vt.key /\ vt.key2 < vt.v[vt.n - 1])
              => Brackets(vt.v, vt.n, vt.hi2, vt.key2)

\* the output frame j of a pass lies in 0 .. ceil((N / fs) / dt) - 1
InSignal(ps, j) == (j * sw.dt) * SampleRate < ps.N * TicksPerSec

\* frame j of a pass used a k with (k - 1) * (W2 / fs) <= j * dt, that is
\* not below the k of frame j - 1 and that has 1 <= k <= ceil(N / W2)
IndexInRange(ps, j) ==
    LET k == ps.k[j + 1]
    IN  /\ (k - 1) * (ps.w \div 2) * TicksPerSec <= (j * sw.dt) * nyquist2
        /\ j > 0 => ps.k[j] <= k
        /\ 1 <= k
        /\ k <= ps.Lx - 1

\* C21 as stated: in every strength pass, for every output frame j in
\* 0 .. ceil((N / fs) / dt) - 1, the loudness frame index k that Sadd() uses
\* is the smallest one with k * (W2 / fs) > j * dt, never decreases with j,
\* and has 1 <= k <= ceil(N / W2)
C21_IndexIsSmallestPastFrameTime ==
    \A i \in 1..Len(sw.pass) :
        \A j \in 0..(Len(sw.pass[i].k) - 1) :
            InSignal(sw.pass[i], j) =>
                /\ IndexInRange(sw.pass[i], j)
                /\ sw.pass[i].k[j + 1] * (sw.pass[i].w \div 2) * TicksPerSec
                       > (j * sw.dt) * nyquist2

\* what the running sums of Sadd() keep of C21: in every strength pass, for
\* every output frame j in 0 .. ceil((N / fs) / dt) - 1, the index k has
\* (k - 1) * (W2 / fs) <= j * dt <= k * (W2 / fs), never decreases with j,
\* and has 1 <= k <= ceil(N / W2)
IndexBracketsFrameTime ==
    \A i \in 1..Len(sw.pass) :
        \A j \in 0..(Len(sw.pass[i].k) - 1) :
            InSignal(sw.pass[i], j) =>
                /\ IndexInRange(sw.pass[i], j)
                /\ sw.pass[i].k[j + 1] * (sw.pass[i].w \div 2) * TicksPerSec
                       >= (j * sw.dt) * nyquist2

\* C22: once the planner has made the grid for a request that passed the
\* checks (min >= 1, max - min >= 1; max clamped to fs/2), the grid has
\* K >= 3 candidates, and every element of pc that pitch() read is one of
\* its K elements
C22_GridHoldsWhatPitchReads ==
    ("planner" \in stages /\ min >= 1 /\ max - min >= 1) =>
        /\ sw.K >= 3
        /\ \A i \in sw.pcr : i < sw.K

\* the pairs of the list whose input swipe() was called for, and those whose
\* output printp() wrote
Processed == Len(opened)
Written == Len(outs)

\* the inputs are taken in list order, and the output of pair k is written
\* only when pairs 1 .. k - 1 were read and written
BatchInOrder ==
    /\ Processed <= Len(argv.list)
    /\ \A k \in 1..Processed : opened[k] = argv.list[k]
    /\ Written <= Processed
    /\ Processed <= Written + 1

\* C23: in batch mode the pairs are processed in list order, the output of
\* pair k is written only after pairs 1 .. k - 1 were read and written; when
\* the program has ended with a pair that failed, the status is 1 and that
\* pair is the last one processed; the status is 0 only if every pair was
\* written
C23_BatchStopsAtFirstFailureWithStatus1 ==
    (argv.b /\ argv.quit = "no") =>
        /\ BatchInOrder
        /\ (at = "exit" /\ Written < Processed) => status = EXIT_FAILURE
        /\ (at = "exit" /\ status = EXIT_SUCCESS) => Written = Len(argv.list)

\* C23 with any nonzero status for the pair that failed
BatchStopsAtFirstFailure ==
    (argv.b /\ argv.quit = "no") =>
        /\ BatchInOrder
        /\ (at = "exit" /\ Written < Processed) => status # EXIT_SUCCESS
        /\ (at = "exit" /\ status = EXIT_SUCCESS) => Written = Len(argv.list)

====
